---- MODULE Spec2Model ----
(***************************************************************************)
(* Markdown parsing and HTML-tree rendering core of the static site        *)
(* generator (src/src/htmlnode.py, src/src/blocktypes.py).                  *)
(*                                                                          *)
(* A Python str is a sequence of one-character strings; Python's None is    *)
(* the value None below, which is no sequence of characters.                *)
(***************************************************************************)
EXTENDS Integers, Sequences, FiniteSets, TLC

VARIABLES
  \* text_to_textnodes: its argument, its local `nodes`, and the pass it is at
  text, nodes, pc,
  \* markdown_to_html_node: its argument, its locals `blocks` and `block_nodes`,
  \* the index of the block the loop is at, what it returned, where it is, and
  \* the strings it has passed to text_to_children so far
  markdown, blocks, bi, block_nodes, root, dpc, tokenized,
  \* block_to_block_type: its argument and what it returned
  cblock, btype,
  \* extract_markdown_images / extract_markdown_links: what each returned
  found_images, found_links,
  \* the node classes: the call made, the node it gave, what to_html gave, and
  \* where the caller is
  call, hnode, html, npc

inlineVars == <<text, nodes, pc>>

docVars == <<markdown, blocks, bi, block_nodes, root, dpc, tokenized>>

blockVars == <<cblock, btype>>

extractVars == <<found_images, found_links>>

nodeVars == <<call, hnode, html, npc>>

vars == <<inlineVars, docVars, blockVars, extractVars, nodeVars>>

(***************************************************************************)
(* Python values and str methods                                            *)
(*                                                                          *)
(* A value that the code names once and reads several times is passed to a  *)
(* helper operator as an argument.                                          *)
(***************************************************************************)
None == <<"None">>

NL == "\n"

\* The backtick character (a string literal of the module cannot hold it)
Backtick == "BACKTICK"

\* The characters \s and str.strip() take for whitespace, as far as modelled
Whitespace == {" ", "\n", "\t"}

\* s[i:] with a 1-based i
Drop(s, i) == SubSeq(s, i, Len(s))

StartsWithAt(s, p, i) ==
  /\ i + Len(p) - 1 <= Len(s)
  /\ \A k \in 1..Len(p) : s[i + k - 1] = p[k]

\* str.startswith / str.endswith
startswith(s, p) == StartsWithAt(s, p, 1)

endswith(s, p) == Len(p) <= Len(s) /\ StartsWithAt(s, p, Len(s) - Len(p) + 1)

\* str.find from position i on, 1-based, 0 when sub does not occur
RECURSIVE FindFrom(_, _, _)
FindFrom(s, sub, i) ==
  IF i > Len(s) THEN 0
  ELSE IF StartsWithAt(s, sub, i) THEN i
  ELSE FindFrom(s, sub, i + 1)

find(s, sub) == FindFrom(s, sub, 1)

\* `sub in s`
contains(s, sub) == find(s, sub) # 0

\* str.split(sep): leftmost, non-overlapping occurrences of a non-empty sep
RECURSIVE split(_, _)
SplitAt(s, sep, i) ==
  IF i = 0 THEN <<s>>
  ELSE <<SubSeq(s, 1, i - 1)>> \o split(Drop(s, i + Len(sep)), sep)

split(s, sep) == SplitAt(s, sep, find(s, sep))

\* str.split(sep, 1)
Split1At(s, sep, i) ==
  IF i = 0 THEN <<s>> ELSE <<SubSeq(s, 1, i - 1), Drop(s, i + Len(sep))>>

split1(s, sep) == Split1At(s, sep, find(s, sep))

\* sep.join(parts)
RECURSIVE join(_, _)
join(sep, parts) ==
  IF Len(parts) = 0 THEN <<>>
  ELSE IF Len(parts) = 1 THEN parts[1]
  ELSE parts[1] \o sep \o join(sep, Tail(parts))

\* str.count(sub): non-overlapping occurrences
RECURSIVE count(_, _)
CountAt(s, sub, i) ==
  IF i = 0 THEN 0 ELSE 1 + count(Drop(s, i + Len(sub)), sub)

count(s, sub) == CountAt(s, sub, find(s, sub))

\* "".join(parts)
RECURSIVE Concat(_)
Concat(parts) == IF parts = <<>> THEN <<>> ELSE parts[1] \o Concat(Tail(parts))

RECURSIVE lstrip(_, _)
lstrip(s, chars) ==
  IF s # <<>> /\ s[1] \in chars THEN lstrip(Tail(s), chars) ELSE s

RECURSIVE rstrip(_, _)
rstrip(s, chars) ==
  IF s # <<>> /\ s[Len(s)] \in chars THEN rstrip(SubSeq(s, 1, Len(s) - 1), chars) ELSE s

\* str.strip()
strip(s) == rstrip(lstrip(s, Whitespace), Whitespace)

\* str.splitlines(): the only line boundary among the characters modelled is
\* "\n"; a final line break opens no further line.
RECURSIVE splitlines(_)
SplitLinesAt(s, i) ==
  IF i = 0 THEN <<s>> ELSE <<SubSeq(s, 1, i - 1)>> \o splitlines(Drop(s, i + 1))

splitlines(s) == IF s = <<>> THEN <<>> ELSE SplitLinesAt(s, find(s, <<NL>>))

\* Number of leading characters of s that are in chars
RECURSIVE LeadingRun(_, _)
LeadingRun(s, chars) ==
  IF s # <<>> /\ s[1] \in chars THEN 1 + LeadingRun(Tail(s), chars) ELSE 0

Digits == <<"0", "1", "2", "3", "4", "5", "6", "7", "8", "9">>

DigitChars == {Digits[d] : d \in 1..Len(Digits)}

DigitValue(c) == (CHOOSE d \in 1..Len(Digits) : Digits[d] = c) - 1

\* int(s) of a run of decimal digits
RECURSIVE int(_)
int(s) ==
  IF s = <<>> THEN 0 ELSE 10 * int(SubSeq(s, 1, Len(s) - 1)) + DigitValue(s[Len(s)])

(***************************************************************************)
(* TextNode / TextType (textnode.py)                                        *)
(***************************************************************************)
TextType_TEXT == "TEXT"
TextType_BOLD == "BOLD"
TextType_ITALIC == "ITALIC"
TextType_CODE == "CODE"
TextType_LINK == "LINK"
TextType_IMAGE == "IMAGE"

TextType ==
  {TextType_TEXT, TextType_BOLD, TextType_ITALIC, TextType_CODE, TextType_LINK, TextType_IMAGE}

\* TextNode(text, text_type, url=None)
TextNode(t, tt, u) == [text |-> t, text_type |-> tt, url |-> u]

(***************************************************************************)
(* extract_markdown_images / extract_markdown_links                         *)
(***************************************************************************)
\* First index >= i of a character of stop, Len(s) + 1 when there is none: the
\* end of the greedy run [^stop]* that starts at i.
RECURSIVE RunEnd(_, _, _)
RunEnd(s, i, stop) ==
  IF i > Len(s) \/ s[i] \in stop THEN i ELSE RunEnd(s, i + 1, stop)

NoMatch == [ok |-> FALSE, label |-> <<>>, url |-> <<>>, end |-> 0]

\* \[([^\[\]]*)\]\(([^\(\)]*)\) with '[' at i, ']' at j and ')' at k
PairMatch(s, i, j, k) ==
  IF /\ i <= Len(s) /\ s[i] = "["
     /\ j <= Len(s) /\ s[j] = "]"
     /\ j + 1 <= Len(s) /\ s[j + 1] = "("
     /\ k <= Len(s) /\ s[k] = ")"
  THEN [ok |-> TRUE, label |-> SubSeq(s, i + 1, j - 1),
        url |-> SubSeq(s, j + 2, k - 1), end |-> k]
  ELSE NoMatch

PairMatchFrom(s, i, j) == PairMatch(s, i, j, RunEnd(s, j + 2, {"(", ")"}))

\* \[([^\[\]]*)\]\(([^\(\)]*)\) matched at position i. Each class excludes the
\* character that must follow it, so the greedy run is the only candidate.
BracketPairAt(s, i) == PairMatchFrom(s, i, RunEnd(s, i + 1, {"[", "]"}))

\* !\[([^\[\]]*)\]\(([^\(\)]*)\) matched at position i
ImagePatternAt(s, i) ==
  IF i <= Len(s) /\ s[i] = "!" THEN BracketPairAt(s, i + 1) ELSE NoMatch

\* LinkPatternAt without the lookbehind
LinkPatternAt_nolookbehind(s, i) == BracketPairAt(s, i)

\* (?<!!)\[([^\[\]]*)\]\(([^\(\)]*)\) matched at position i
LinkPatternAt(s, i) ==
  IF i > 1 /\ s[i - 1] = "!" THEN NoMatch ELSE BracketPairAt(s, i)

\* re.findall: scan left to right, resume after each match
RECURSIVE FindAllImages(_, _)
AfterImageAt(s, i, m) ==
  IF m.ok THEN <<[label |-> m.label, url |-> m.url]>> \o FindAllImages(s, m.end + 1)
  ELSE FindAllImages(s, i + 1)

FindAllImages(s, i) ==
  IF i > Len(s) THEN <<>> ELSE AfterImageAt(s, i, ImagePatternAt(s, i))

RECURSIVE FindAllLinks(_, _)
AfterLinkAt(s, i, m) ==
  IF m.ok THEN <<[label |-> m.label, url |-> m.url]>> \o FindAllLinks(s, m.end + 1)
  ELSE FindAllLinks(s, i + 1)

FindAllLinks(s, i) ==
  IF i > Len(s) THEN <<>> ELSE AfterLinkAt(s, i, LinkPatternAt(s, i))

extract_markdown_images(s) == FindAllImages(s, 1)

extract_markdown_links(s) == FindAllLinks(s, 1)

\* f"![{alt}]({url})" and f"[{label}]({url})"
ImageMarkup(alt, url) == <<"!", "[">> \o alt \o <<"]", "(">> \o url \o <<")">>

LinkMarkup(label, url) == <<"[">> \o label \o <<"]", "(">> \o url \o <<")">>

(***************************************************************************)
(* split_nodes_image / split_nodes_link                                     *)
(***************************************************************************)
\* `if before: new_nodes.append(TextNode(before, TextType.TEXT))`
PlainIfAny(s) == IF s # <<>> THEN <<TextNode(s, TextType_TEXT, None)>> ELSE <<>>

\* AfterOf with the rest of the text dropped
AfterOf_lost(sp) == <<>>

\* split[1] if len(split) > 1 else ""
AfterOf(sp) == IF Len(sp) > 1 THEN sp[2] ELSE <<>>

\* The loop `for alt, url in images` over one node's text: the nodes appended,
\* then the trailing `if text:` node. sp is text.split(markup, 1).
RECURSIVE SplitImagesIn(_, _)
ImageStep(sp, images) ==
  PlainIfAny(sp[1])
  \o <<TextNode(images[1].label, TextType_IMAGE, images[1].url)>>
  \o SplitImagesIn(AfterOf(sp), Tail(images))

SplitImagesIn(s, images) ==
  IF images = <<>> THEN PlainIfAny(s)
  ELSE ImageStep(split1(s, ImageMarkup(images[1].label, images[1].url)), images)

RECURSIVE SplitLinksIn(_, _)
LinkStep(sp, links) ==
  PlainIfAny(sp[1])
  \o <<TextNode(links[1].label, TextType_LINK, links[1].url)>>
  \o SplitLinksIn(AfterOf(sp), Tail(links))

SplitLinksIn(s, links) ==
  IF links = <<>> THEN PlainIfAny(s)
  ELSE LinkStep(split1(s, LinkMarkup(links[1].label, links[1].url)), links)

\* One iteration of the loop of split_nodes_image: what one old node becomes
ImagesOfNode(node, images) ==
  IF images = <<>> THEN <<node>> ELSE SplitImagesIn(node.text, images)

SplitImageNode(node) ==
  IF node.text_type # TextType_TEXT THEN <<node>>
  ELSE ImagesOfNode(node, extract_markdown_images(node.text))

LinksOfNode(node, links) ==
  IF links = <<>> THEN <<node>> ELSE SplitLinksIn(node.text, links)

SplitLinkNode(node) ==
  IF node.text_type # TextType_TEXT THEN <<node>>
  ELSE LinksOfNode(node, extract_markdown_links(node.text))

RECURSIVE split_nodes_image(_)
split_nodes_image(old_nodes) ==
  IF old_nodes = <<>> THEN <<>>
  ELSE SplitImageNode(old_nodes[1]) \o split_nodes_image(Tail(old_nodes))

RECURSIVE split_nodes_link(_)
split_nodes_link(old_nodes) ==
  IF old_nodes = <<>> THEN <<>>
  ELSE SplitLinkNode(old_nodes[1]) \o split_nodes_link(Tail(old_nodes))

(***************************************************************************)
(* split_nodes_delimiter                                                    *)
(***************************************************************************)
\* A call that may raise gives [raised, out]
Raises == [raised |-> TRUE, out |-> <<>>]

Returns(out) == [raised |-> FALSE, out |-> out]

\* The loop `for i in range(len(parts))`, from index i (0-based as in the code)
RECURSIVE PartsToNodes(_, _, _)
PartsToNodes(parts, i, text_type) ==
  IF i >= Len(parts) THEN <<>>
  ELSE (IF i % 2 = 0 THEN PlainIfAny(parts[i + 1])
        ELSE <<TextNode(parts[i + 1], text_type, None)>>)
       \o PartsToNodes(parts, i + 1, text_type)

\* Unmatched with the parity test inverted
Unmatched_odd(parts) == Len(parts) % 2 = 1

\* `if len(parts) % 2 == 0: raise`
Unmatched(parts) == Len(parts) % 2 = 0

NodesOfParts(parts, text_type) ==
  IF Unmatched(parts) THEN Raises ELSE Returns(PartsToNodes(parts, 0, text_type))

\* SplitDelimiterNode without the test of the node's kind
SplitDelimiterNode_anykind(old_node, delimiter, text_type) ==
  IF ~contains(old_node.text, delimiter) THEN Returns(<<old_node>>)
  ELSE NodesOfParts(split(old_node.text, delimiter), text_type)

\* One iteration of the loop of split_nodes_delimiter
SplitDelimiterNode(old_node, delimiter, text_type) ==
  IF old_node.text_type # TextType_TEXT THEN Returns(<<old_node>>)
  ELSE IF ~contains(old_node.text, delimiter) THEN Returns(<<old_node>>)
  ELSE NodesOfParts(split(old_node.text, delimiter), text_type)

\* Two results in sequence: the first exception, or both outputs
Then(first, rest) ==
  IF first.raised \/ rest.raised THEN Raises ELSE Returns(first.out \o rest.out)

RECURSIVE split_nodes_delimiter(_, _, _)
split_nodes_delimiter(old_nodes, delimiter, text_type) ==
  IF old_nodes = <<>> THEN Returns(<<>>)
  ELSE Then(SplitDelimiterNode(old_nodes[1], delimiter, text_type),
            split_nodes_delimiter(Tail(old_nodes), delimiter, text_type))

(***************************************************************************)
(* text_to_textnodes                                                        *)
(***************************************************************************)
\* The passes in the order the code applies them
NumPasses == 5

\* Pass k applied to a node list
ApplyPass(k, old_nodes) ==
  IF k = 1 THEN Returns(split_nodes_image(old_nodes))
  ELSE IF k = 2 THEN Returns(split_nodes_link(old_nodes))
  ELSE IF k = 3 THEN split_nodes_delimiter(old_nodes, <<"*", "*">>, TextType_BOLD)
  ELSE IF k = 4 THEN split_nodes_delimiter(old_nodes, <<"_">>, TextType_ITALIC)
  ELSE split_nodes_delimiter(old_nodes, <<Backtick>>, TextType_CODE)

\* Passes k.. applied in turn; r is what pass k gave, and its exception ends
\* the call
RECURSIVE PassesFrom(_, _)
AfterPass(k, r) == IF r.raised THEN r ELSE PassesFrom(k + 1, r.out)

PassesFrom(k, old_nodes) ==
  IF k > NumPasses THEN Returns(old_nodes) ELSE AfterPass(k, ApplyPass(k, old_nodes))

text_to_textnodes(s) == PassesFrom(1, <<TextNode(s, TextType_TEXT, None)>>)

(***************************************************************************)
(* HTMLNode, LeafNode, ParentNode                                           *)
(***************************************************************************)
\* A node is a record [cls, tag, value, children, props]. NoneNode stands for
\* "no node"; an argument that is None where a list or a dict is expected is
\* NoneChildren or NoneProps. ValueError is what a raising constructor gives.
NoneNode == [cls |-> "None", tag |-> None, value |-> None, children |-> <<>>, props |-> <<>>]

ValueError == [cls |-> "ValueError", tag |-> None, value |-> None, children |-> <<>>, props |-> <<>>]

NoneChildren == <<NoneNode>>

Prop(k, v) == [key |-> k, value |-> v]

NoneProps == <<Prop(None, None)>>

\* What to_html gives when it raises ValueError (no sequence of characters)
RaisedValueError == <<"ValueError">>

\* HTMLNode.__init__: `children or []`, `props or {}`
HTMLNode(cls, tag, value, children, props) ==
  [cls |-> cls, tag |-> tag, value |-> value,
   children |-> IF children = NoneChildren \/ children = <<>> THEN <<>> ELSE children,
   props |-> IF props = NoneProps \/ props = <<>> THEN <<>> ELSE props]

\* LeafNode.__init__
LeafNode(tag, value, props) ==
  IF value = None THEN ValueError
  ELSE HTMLNode("LeafNode", tag, value, NoneChildren, props)

\* ParentNode.__init__
ParentNode(tag, children, props) ==
  HTMLNode("ParentNode", tag, None, children, props)

\* What an f-string puts for a value: None is written as the word None
Str(v) == IF v = None THEN <<"N", "o", "n", "e">> ELSE v

\* f' {key}="{value}"' for each item, joined
RECURSIVE props_to_html(_)
props_to_html(props) ==
  IF props = <<>> THEN <<>>
  ELSE <<" ">> \o props[1].key \o <<"=", "\"">> \o Str(props[1].value) \o <<"\"">>
       \o props_to_html(Tail(props))

\* Element that closes an element without content in its opening tag
Element_selfclosed(tag, props, inner) ==
  IF inner = <<>> THEN <<"<">> \o tag \o props_to_html(props) \o <<" ", "/", ">">>
  ELSE <<"<">> \o tag \o props_to_html(props) \o <<">">> \o inner \o <<"<", "/">> \o tag \o <<">">>

\* f"<{tag}{props}>{inner}</{tag}>"
Element(tag, props, inner) ==
  <<"<">> \o tag \o props_to_html(props) \o <<">">> \o inner \o <<"<", "/">> \o tag \o <<">">>

\* LeafNode.to_html
LeafToHtml(n) ==
  IF n.value = None THEN RaisedValueError
  ELSE IF n.tag = None THEN n.value
  ELSE Element(n.tag, n.props, n.value)

\* "".join(...) of the children's renderings; a child that raises ends it
JoinChildren(n, parts) ==
  IF \E i \in 1..Len(parts) : parts[i] = RaisedValueError THEN RaisedValueError
  ELSE Element(n.tag, n.props, Concat(parts))

\* LeafNode.to_html / ParentNode.to_html, by the class of the node
RECURSIVE to_html(_)
to_html(n) ==
  IF n.cls = "LeafNode" THEN LeafToHtml(n)
  ELSE IF n.tag = None THEN RaisedValueError
  ELSE IF n.children = NoneChildren THEN RaisedValueError
  ELSE JoinChildren(n, [i \in 1..Len(n.children) |-> to_html(n.children[i])])

(***************************************************************************)
(* text_node_to_html_node                                                   *)
(***************************************************************************)
text_node_to_html_node(text_node) ==
  IF text_node.text_type = TextType_TEXT THEN LeafNode(None, text_node.text, NoneProps)
  ELSE IF text_node.text_type = TextType_BOLD THEN LeafNode(<<"b">>, text_node.text, NoneProps)
  ELSE IF text_node.text_type = TextType_ITALIC THEN LeafNode(<<"i">>, text_node.text, NoneProps)
  ELSE IF text_node.text_type = TextType_CODE
    THEN LeafNode(<<"c", "o", "d", "e">>, text_node.text, NoneProps)
  ELSE IF text_node.text_type = TextType_LINK
    THEN LeafNode(<<"a">>, text_node.text, <<Prop(<<"h", "r", "e", "f">>, text_node.url)>>)
  ELSE IF text_node.text_type = TextType_IMAGE
    THEN LeafNode(<<"i", "m", "g">>, <<>>,
                  <<Prop(<<"s", "r", "c">>, text_node.url), Prop(<<"a", "l", "t">>, text_node.text)>>)
  ELSE ValueError

(***************************************************************************)
(* markdown_to_blocks                                                       *)
(***************************************************************************)
\* [block.strip() for block in blocks if block.strip()]
RECURSIVE StripAndFilter(_)
KeepIfAny(stripped, segs) ==
  (IF stripped # <<>> THEN <<stripped>> ELSE <<>>) \o StripAndFilter(Tail(segs))

StripAndFilter(segs) ==
  IF segs = <<>> THEN <<>> ELSE KeepIfAny(strip(segs[1]), segs)

\* markdown_to_blocks that keeps the document in one piece
markdown_to_blocks_nosplit(md) == StripAndFilter(<<md>>)

markdown_to_blocks(md) == StripAndFilter(split(md, <<NL, NL>>))

(***************************************************************************)
(* block_to_block_type                                                      *)
(***************************************************************************)
BlockType_PARAGRAPH == "paragraph"
BlockType_HEADING == "heading"
BlockType_CODE == "code"
BlockType_QUOTE == "quote"
BlockType_UNORDERED_LIST == "unordered_list"
BlockType_ORDERED_LIST == "ordered_list"

Fence == <<Backtick, Backtick, Backtick>>

\* re.match(r'^(#{1,6})\s', block), h the number of leading '#'. With more than
\* six of them the character after any 1 to 6 is '#', so nothing matches.
HeadingMatchOf(b, h) == h >= 1 /\ h <= 6 /\ h + 1 <= Len(b) /\ b[h + 1] \in Whitespace

HeadingMatch(b) == HeadingMatchOf(b, LeadingRun(b, {"#"}))

\* re.match(r'^(\d+)\.\s', line), d the number of leading digits: [ok, digits]
OrderedMatchOf(line, d) ==
  [ok |-> /\ d >= 1
          /\ d + 2 <= Len(line)
          /\ line[d + 1] = "."
          /\ line[d + 2] \in Whitespace,
   digits |-> SubSeq(line, 1, d)]

OrderedMatch(line) == OrderedMatchOf(line, LeadingRun(line, DigitChars))

\* The loop over the lines with expected_num: TRUE when `ordered` stays True
RECURSIVE OrderedFrom(_, _)
\* OrderedStep without `expected_num += 1`
OrderedStep_noincrement(m, lines, expected_num) ==
  IF ~m.ok THEN FALSE
  ELSE IF int(m.digits) # expected_num THEN FALSE
  ELSE OrderedFrom(Tail(lines), expected_num)

OrderedStep(m, lines, expected_num) ==
  IF ~m.ok THEN FALSE
  ELSE IF int(m.digits) # expected_num THEN FALSE
  ELSE OrderedFrom(Tail(lines), expected_num + 1)

OrderedFrom(lines, expected_num) ==
  IF lines = <<>> THEN TRUE
  ELSE OrderedStep(OrderedMatch(lines[1]), lines, expected_num)

\* TypeByLines where one matching line is enough for Quote and UnorderedList
TypeByLines_anyline(lines) ==
  IF lines # <<>> /\ \E k \in 1..Len(lines) : startswith(lines[k], <<">">>)
    THEN BlockType_QUOTE
  ELSE IF lines # <<>> /\ \E k \in 1..Len(lines) : startswith(lines[k], <<"-", " ">>)
    THEN BlockType_UNORDERED_LIST
  ELSE IF lines # <<>> /\ OrderedFrom(lines, 1) THEN BlockType_ORDERED_LIST
  ELSE BlockType_PARAGRAPH

\* The checks that follow `lines = block.splitlines()`
TypeByLines(lines) ==
  IF lines # <<>> /\ \A k \in 1..Len(lines) : startswith(lines[k], <<">">>)
    THEN BlockType_QUOTE
  ELSE IF lines # <<>> /\ \A k \in 1..Len(lines) : startswith(lines[k], <<"-", " ">>)
    THEN BlockType_UNORDERED_LIST
  ELSE IF lines # <<>> /\ OrderedFrom(lines, 1) THEN BlockType_ORDERED_LIST
  ELSE BlockType_PARAGRAPH

block_to_block_type(block) ==
  IF startswith(block, Fence) /\ endswith(block, Fence) THEN BlockType_CODE
  ELSE IF HeadingMatch(block) THEN BlockType_HEADING
  ELSE TypeByLines(splitlines(block))

(***************************************************************************)
(* text_to_children and the branches of markdown_to_html_node               *)
(***************************************************************************)
RECURSIVE MapToHtmlNodes(_)
MapToHtmlNodes(text_nodes) ==
  IF text_nodes = <<>> THEN <<>>
  ELSE <<text_node_to_html_node(text_nodes[1])>> \o MapToHtmlNodes(Tail(text_nodes))

ChildrenOf(r) == IF r.raised THEN Raises ELSE Returns(MapToHtmlNodes(r.out))

text_to_children(s) == ChildrenOf(text_to_textnodes(s))

\* What one branch gives: the exception or the node appended to block_nodes,
\* and the strings it passed to text_to_children, in call order.
Raised(calls) == [raised |-> TRUE, node |-> NoneNode, calls |-> calls]

Appended(node, calls) == [raised |-> FALSE, node |-> node, calls |-> calls]

\* A parent around the children c that text_to_children(content) gave
ParentOf(tag, content, c) ==
  IF c.raised THEN Raised(<<content>>)
  ELSE Appended(ParentNode(tag, c.out, NoneProps), <<content>>)

InlineParent(tag, content) == ParentOf(tag, content, text_to_children(content))

\* `if lines and lines[0].startswith("```"): lines = lines[1:]`
DropOpeningFence(lines) ==
  IF lines # <<>> /\ startswith(lines[1], Fence) THEN Tail(lines) ELSE lines

\* `if lines and lines[-1].startswith("```"): lines = lines[:-1]`
DropClosingFence(lines) ==
  IF lines # <<>> /\ startswith(lines[Len(lines)], Fence)
  THEN SubSeq(lines, 1, Len(lines) - 1) ELSE lines

\* `if code_content and not code_content.endswith("\n"): code_content += "\n"`
EndWithNewline(code_content) ==
  IF code_content # <<>> /\ ~endswith(code_content, <<NL>>)
  THEN code_content \o <<NL>> ELSE code_content

CodeContent(block) ==
  EndWithNewline(join(<<NL>>, DropClosingFence(DropOpeningFence(splitlines(block)))))

\* CodeBranch that hands the content to text_to_children
CodeBranch_tokenized(block) == InlineParent(<<"p", "r", "e">>, CodeContent(block))

CodeBranch(block) ==
  Appended(ParentNode(<<"p", "r", "e">>,
                      <<LeafNode(<<"c", "o", "d", "e">>, CodeContent(block), NoneProps)>>,
                      NoneProps),
           <<>>)

\* The rest of the line rest begins with, eol the place of its first "\n"
UpToEol(rest, eol) == IF eol = 0 THEN rest ELSE SubSeq(rest, 1, eol - 1)

\* re.match(r'^(#{1,6})\s+(.*)', block) with h leading '#' followed by w
\* characters of whitespace: [ok, level, content]. \s+ takes the whole run of
\* whitespace, (.*) the rest of the line it ends in.
HeadingGroups(block, h, w) ==
  [ok |-> h >= 1 /\ h <= 6 /\ w >= 1,
   level |-> h,
   content |-> UpToEol(Drop(block, h + w + 1), find(Drop(block, h + w + 1), <<NL>>))]

HeadingAfterHashes(block, h) ==
  HeadingGroups(block, h, LeadingRun(Drop(block, h + 1), Whitespace))

HeadingContentMatch(block) == HeadingAfterHashes(block, LeadingRun(block, {"#"}))

\* HeadingTag that ignores the level
HeadingTag_h1(level) == <<"h", "1">>

\* f"h{level}"
HeadingTag(level) == <<"h", Digits[level + 1]>>

HeadingOf(block, m) ==
  IF m.ok THEN InlineParent(HeadingTag(m.level), m.content)
  ELSE InlineParent(<<"p">>, block)

HeadingBranch(block) == HeadingOf(block, HeadingContentMatch(block))

\* [line.lstrip(">").strip() for line in block.splitlines()]
RECURSIVE QuoteLines(_)
QuoteLines(lines) ==
  IF lines = <<>> THEN <<>>
  ELSE <<strip(lstrip(lines[1], {">"}))>> \o QuoteLines(Tail(lines))

QuoteBranch(block) ==
  InlineParent(<<"b", "l", "o", "c", "k", "q", "u", "o", "t", "e">>,
               join(<<NL>>, QuoteLines(splitlines(block))))

\* group 2 of re.match(r'^(\d+)\.\s+(.*)', line), d the number of leading digits
OrderedRest(line, d) ==
  Drop(line, d + 2 + LeadingRun(Drop(line, d + 2), Whitespace))

\* [has, content]: whether a line of a list block gives an item, and the text
\* of the item
UnorderedItem(line) ==
  [has |-> startswith(line, <<"-", " ">>), content |-> strip(Drop(line, 3))]

OrderedItem(line) ==
  [has |-> OrderedMatch(line).ok,
   content |-> strip(OrderedRest(line, LeadingRun(line, DigitChars)))]

\* The loop over the lines of a list block, items the (has, content) of each
\* line: [raised, out, calls], out the li nodes. c is what text_to_children gave
\* for the first item.
RECURSIVE ListItems(_)
ItemThen(content, c, rest) ==
  IF c.raised THEN [raised |-> TRUE, out |-> <<>>, calls |-> <<content>>]
  ELSE IF rest.raised THEN [raised |-> TRUE, out |-> <<>>, calls |-> <<content>> \o rest.calls]
  ELSE [raised |-> FALSE,
        out |-> <<ParentNode(<<"l", "i">>, c.out, NoneProps)>> \o rest.out,
        calls |-> <<content>> \o rest.calls]

ListItems(items) ==
  IF items = <<>> THEN [raised |-> FALSE, out |-> <<>>, calls |-> <<>>]
  ELSE IF ~items[1].has THEN ListItems(Tail(items))
  ELSE ItemThen(items[1].content, text_to_children(items[1].content), ListItems(Tail(items)))

ListOf(tag, r) ==
  IF r.raised THEN Raised(r.calls) ELSE Appended(ParentNode(tag, r.out, NoneProps), r.calls)

UnorderedItems(lines) == [k \in 1..Len(lines) |-> UnorderedItem(lines[k])]

OrderedItems(lines) == [k \in 1..Len(lines) |-> OrderedItem(lines[k])]

UnorderedListBranch(block) ==
  ListOf(<<"u", "l">>, ListItems(UnorderedItems(splitlines(block))))

OrderedListBranch(block) ==
  ListOf(<<"o", "l">>, ListItems(OrderedItems(splitlines(block))))

ParagraphBranch(block) ==
  InlineParent(<<"p">>, join(<<" ">>, splitlines(block)))

\* The if/elif chain on bt of the loop body
AssembleAs(bt, block) ==
  IF bt = BlockType_CODE THEN CodeBranch(block)
  ELSE IF bt = BlockType_HEADING THEN HeadingBranch(block)
  ELSE IF bt = BlockType_QUOTE THEN QuoteBranch(block)
  ELSE IF bt = BlockType_UNORDERED_LIST THEN UnorderedListBranch(block)
  ELSE IF bt = BlockType_ORDERED_LIST THEN OrderedListBranch(block)
  ELSE ParagraphBranch(block)

\* The body of `for block in blocks`
AssembleBlock(block) == AssembleAs(block_to_block_type(block), block)

(***************************************************************************)
(* The components at rest: each specification runs one of them              *)
(***************************************************************************)
IdleInline == text = <<>> /\ nodes = <<>> /\ pc = "idle"

IdleDoc ==
  /\ markdown = <<>> /\ blocks = <<>> /\ bi = 0 /\ block_nodes = <<>>
  /\ root = NoneNode /\ dpc = "idle" /\ tokenized = <<>>

IdleBlock == cblock = <<>> /\ btype = "idle"

\* The value of a result before its extractor has been called
NotCalled == <<[label |-> None, url |-> None]>>

IdleExtract == found_images = NotCalled /\ found_links = NotCalled

NoCall == [fn |-> "idle", text_node |-> TextNode(<<>>, TextType_TEXT, None),
           tag |-> None, value |-> None, children |-> NoneChildren, props |-> NoneProps]

IdleNode == call = NoCall /\ hnode = NoneNode /\ html = None /\ npc = "idle"

\* Every concatenation of at most n of the fragments
RECURSIVE Concats(_, _)
Concats(frags, n) ==
  IF n = 0 THEN {<<>>}
  ELSE LET prev == Concats(frags, n - 1)
       IN  prev \cup {p \o f : p \in prev, f \in frags}

(***************************************************************************)
(* text_to_textnodes, one pass per step                                     *)
(***************************************************************************)
MaxFrags == 4

\* Pieces of inline text: a letter, the parts of image and link markup, the
\* three delimiters, a whole image and a whole link
InlineFrags ==
  { <<"a">>, <<"[">>, <<"!", "[">>, <<"]", "(">>, <<")">>,
    <<"*", "*">>, <<"_">>, <<Backtick>>,
    ImageMarkup(<<"a">>, <<"u">>), LinkMarkup(<<"a">>, <<"u">>) }

InlineInputs == Concats(InlineFrags, MaxFrags)

InitInline ==
  /\ text \in InlineInputs
  /\ nodes = <<TextNode(text, TextType_TEXT, None)>>
  /\ pc = "image"
  /\ IdleDoc /\ IdleBlock /\ IdleExtract /\ IdleNode

ImagePass ==
  /\ pc = "image"
  /\ nodes' = split_nodes_image(nodes)
  /\ pc' = "link"
  /\ UNCHANGED <<text, docVars, blockVars, extractVars, nodeVars>>

LinkPass ==
  /\ pc = "link"
  /\ nodes' = split_nodes_link(nodes)
  /\ pc' = "bold"
  /\ UNCHANGED <<text, docVars, blockVars, extractVars, nodeVars>>

\* What a delimiter pass that gave r does: on the exception nothing is returned
\* and the call ends (`nodes` is then left as the pass found it)
PassStep(r, next) ==
  IF r.raised THEN pc' = "error" /\ nodes' = nodes ELSE pc' = next /\ nodes' = r.out

DelimiterPass(at, delimiter, text_type, next) ==
  /\ pc = at
  /\ PassStep(split_nodes_delimiter(nodes, delimiter, text_type), next)
  /\ UNCHANGED <<text, docVars, blockVars, extractVars, nodeVars>>

BoldPass == DelimiterPass("bold", <<"*", "*">>, TextType_BOLD, "italic")

ItalicPass == DelimiterPass("italic", <<"_">>, TextType_ITALIC, "code")

CodePass == DelimiterPass("code", <<Backtick>>, TextType_CODE, "done")

NextInline == ImagePass \/ LinkPass \/ BoldPass \/ ItalicPass \/ CodePass

SpecInline == InitInline /\ [][NextInline]_vars

(***************************************************************************)
(* Properties of text_to_textnodes (SpecInline)                             *)
(***************************************************************************)
\* The source markup of a node
MarkupOf(node) ==
  IF node.text_type = TextType_TEXT THEN node.text
  ELSE IF node.text_type = TextType_BOLD THEN <<"*", "*">> \o node.text \o <<"*", "*">>
  ELSE IF node.text_type = TextType_ITALIC THEN <<"_">> \o node.text \o <<"_">>
  ELSE IF node.text_type = TextType_CODE THEN <<Backtick>> \o node.text \o <<Backtick>>
  ELSE IF node.text_type = TextType_LINK THEN LinkMarkup(node.text, node.url)
  ELSE ImageMarkup(node.text, node.url)

\* The markup of a node list, in sequence order
RECURSIVE SourceOf(_)
SourceOf(ns) == IF ns = <<>> THEN <<>> ELSE MarkupOf(ns[1]) \o SourceOf(Tail(ns))

\* Where the markup of node j of ns starts in the markup of ns
OffsetOf(ns, j) == Len(SourceOf(SubSeq(ns, 1, j - 1)))

IsPlain(node) == node.text_type = TextType_TEXT

HasKind(ns, kinds) == \E i \in 1..Len(ns) : ns[i].text_type \in kinds

\* The delimiter of the pass the call is at
DelimiterAt(at) ==
  IF at = "bold" THEN <<"*", "*">> ELSE IF at = "italic" THEN <<"_">> ELSE <<Backtick>>

DelimiterPasses == {"bold", "italic", "code"}

\* Some Plain node of ns holds the delimiter an odd number of times
OddInPlain(ns, delimiter) ==
  \E i \in 1..Len(ns) : IsPlain(ns[i]) /\ count(ns[i].text, delimiter) % 2 = 1

\* C1: when text_to_textnodes returns, the markup of the returned nodes,
\* concatenated in sequence order, is exactly the input string: the nodes cover
\* the input in order with no gap and no overlap.
C1_NodesCoverInput == pc = "done" => SourceOf(nodes) = text

\* C1 witness: a returned list with text before an Image and a typed span
C1_Witness ==
  /\ pc = "done"
  /\ Len(nodes) >= 3
  /\ HasKind(nodes, {TextType_IMAGE, TextType_LINK})
  /\ HasKind(nodes, {TextType_TEXT})
  /\ HasKind(nodes, {TextType_BOLD, TextType_ITALIC, TextType_CODE})

\* C2 as stated: an input in which **, _ or the backtick occurs an odd number
\* of times never makes text_to_textnodes return.
C2_OddCountAlwaysRaises ==
  (\E d \in {<<"*", "*">>, <<"_">>, <<Backtick>>} : count(text, d) % 2 = 1) => pc # "done"

\* C2 amended: a delimiter pass ends the call with the malformed-inline error
\* exactly when one of the Plain nodes it is given holds its delimiter an odd
\* number of times.
C2_OddInPlainRaises ==
  [][(pc \in DelimiterPasses) => (OddInPlain(nodes, DelimiterAt(pc)) <=> pc' = "error")]_vars

\* C2 witness: the call has failed on a Plain node that follows a typed node
C2_Witness ==
  /\ pc = "error"
  /\ Len(nodes) >= 2
  /\ HasKind(nodes, TextType \ {TextType_TEXT})
  /\ \E d \in {<<"*", "*">>, <<"_">>, <<Backtick>>} : OddInPlain(nodes, d)

\* C10: a pass that returns leaves every typed node as it is and where it is
\* (the same node at the same place of the source), and a pass fails only on a
\* Plain node that holds its delimiter an odd number of times, never on what a
\* typed node holds.
C10_TypedNodesUntouched ==
  [][/\ pc' # "error" =>
          \A i \in 1..Len(nodes) :
            ~IsPlain(nodes[i]) =>
              \E j \in 1..Len(nodes') :
                nodes'[j] = nodes[i] /\ OffsetOf(nodes', j) = OffsetOf(nodes, i)
     /\ pc' = "error" => OddInPlain(nodes, DelimiterAt(pc))]_vars

\* C10 witness: the call returned a Link, Image or Bold node that holds a
\* delimiter of a later pass in its text or url
C10_Witness ==
  /\ pc = "done"
  /\ \E i \in 1..Len(nodes) :
       /\ nodes[i].text_type \in {TextType_LINK, TextType_IMAGE, TextType_BOLD}
       /\ \/ contains(nodes[i].text, <<"_">>)
          \/ contains(nodes[i].text, <<Backtick>>)
          \/ (nodes[i].url # None /\ contains(nodes[i].url, <<"_">>))

(***************************************************************************)
(* markdown_to_html_node, one block per step                                *)
(***************************************************************************)
MaxLines == 3

DocLines ==
  { <<>>, <<"a">>, <<"_">>, <<"#", " ", "a">>, <<"#">>,
    Fence, <<"_">> \o Fence, <<">", " ", "a">>, <<">", ">", "_">>,
    <<"-", " ", "a">>, <<"1", ".", " ", "a">>, <<"2", ".", " ", "a">> }

\* The separators between two lines: a line break, a blank line
LineSeps == { <<NL>>, <<NL, NL>> }

\* Every document of at most n of the lines
RECURSIVE Docs(_)
Docs(n) ==
  IF n = 0 THEN {<<>>}
  ELSE IF n = 1 THEN {<<>>} \cup DocLines
  ELSE LET prev == Docs(n - 1)
       IN  prev \cup {p \o sep \o l : p \in prev \ {<<>>}, sep \in LineSeps, l \in DocLines}

\* One-line documents of 1 to MaxHashes '#', a space and a letter
MaxHashes == 7

HeadingDocs == { [k \in 1..h |-> "#"] \o <<" ", "a">> : h \in 1..MaxHashes }

\* Quote blocks with one and with several '>' at the start of a line
QuoteDocs == { <<">", ">", "a">>, <<">", " ", ">", "a">>, <<">", " ", "a", " ", ">">>,
               <<">", "a", NL, ">", ">", "a">>, <<">", ">", ">", " ", "a", NL, ">", " ", "a">> }

DocInputs == Docs(MaxLines) \cup HeadingDocs \cup QuoteDocs

InitDoc ==
  /\ markdown \in DocInputs
  /\ blocks = markdown_to_blocks(markdown)
  /\ bi = 1
  /\ block_nodes = <<>>
  /\ root = NoneNode
  /\ dpc = "loop"
  /\ tokenized = <<>>
  /\ IdleInline /\ IdleBlock /\ IdleExtract /\ IdleNode

\* LoopStep that skips a block whose inline content raised
LoopStep_recover(r) ==
  /\ tokenized' = tokenized \o r.calls
  /\ dpc' = "loop"
  /\ bi' = bi + 1
  /\ block_nodes' = IF r.raised THEN block_nodes ELSE Append(block_nodes, r.node)

\* What an iteration that gave r does to the locals: the exception leaves the
\* function with nothing returned, its locals gone
LoopStep(r) ==
  /\ tokenized' = tokenized \o r.calls
  /\ IF r.raised
     THEN dpc' = "error" /\ block_nodes' = <<>> /\ bi' = bi
     ELSE dpc' = "loop" /\ block_nodes' = Append(block_nodes, r.node) /\ bi' = bi + 1

\* One iteration of `for block in blocks`
LoopBody ==
  /\ dpc = "loop"
  /\ bi <= Len(blocks)
  /\ LoopStep(AssembleBlock(blocks[bi]))
  /\ UNCHANGED <<markdown, blocks, root, inlineVars, blockVars, extractVars, nodeVars>>

\* return ParentNode("div", block_nodes)
Return ==
  /\ dpc = "loop"
  /\ bi > Len(blocks)
  /\ root' = ParentNode(<<"d", "i", "v">>, block_nodes, NoneProps)
  /\ dpc' = "done"
  /\ UNCHANGED <<markdown, blocks, bi, block_nodes, tokenized,
                 inlineVars, blockVars, extractVars, nodeVars>>

NextDoc == LoopBody \/ Return

SpecDoc == InitDoc /\ [][NextDoc]_vars

Spec == SpecDoc

(***************************************************************************)
(* Properties of markdown_to_html_node (SpecDoc)                            *)
(***************************************************************************)
\* The tag the claim gives a block of each type
TagOfBlock(b) ==
  IF block_to_block_type(b) = BlockType_CODE THEN <<"p", "r", "e">>
  ELSE IF block_to_block_type(b) = BlockType_HEADING
    THEN <<"h", Digits[LeadingRun(b, {"#"}) + 1]>>
  ELSE IF block_to_block_type(b) = BlockType_QUOTE
    THEN <<"b", "l", "o", "c", "k", "q", "u", "o", "t", "e">>
  ELSE IF block_to_block_type(b) = BlockType_UNORDERED_LIST THEN <<"u", "l">>
  ELSE IF block_to_block_type(b) = BlockType_ORDERED_LIST THEN <<"o", "l">>
  ELSE <<"p">>

ChildTags(n) == {n.children[k].tag : k \in 1..Len(n.children)}

\* C3: the root returned for a document is a div with one child per block of
\* markdown_to_blocks, in block order, and the tag of each child is the one of
\* its block's type (hN for a heading of N leading '#').
C3_ChildPerBlock ==
  dpc = "done" =>
    /\ root.cls = "ParentNode"
    /\ root.tag = <<"d", "i", "v">>
    /\ Len(root.children) = Len(markdown_to_blocks(markdown))
    /\ \A k \in 1..Len(root.children) :
         /\ root.children[k].cls = "ParentNode"
         /\ root.children[k].tag = TagOfBlock(markdown_to_blocks(markdown)[k])
         /\ LeadingRun(markdown_to_blocks(markdown)[k], {"#"}) \in 1..6
              \/ block_to_block_type(markdown_to_blocks(markdown)[k]) # BlockType_HEADING

\* C3 witness: a root with three children, a heading and a code block among them
C3_Witness ==
  /\ dpc = "done"
  /\ Len(root.children) = 3
  /\ <<"h", "1">> \in ChildTags(root)
  /\ <<"p", "r", "e">> \in ChildTags(root)

\* Some block of the document has inline content whose tokenizing fails
SomeBlockMalformed == \E k \in 1..Len(blocks) : AssembleBlock(blocks[k]).raised

\* C4: when the inline content of some block is malformed, no root is ever
\* returned, and once the call has failed nothing of the other blocks' nodes is
\* left; the call fails at that block.
C4_MalformedBlockAborts ==
  /\ SomeBlockMalformed => (root = NoneNode /\ dpc # "done")
  /\ dpc = "error" => (block_nodes = <<>> /\ AssembleBlock(blocks[bi]).raised)
  /\ (dpc = "loop" /\ bi <= Len(blocks)) => \A k \in 1..(bi - 1) : ~AssembleBlock(blocks[k]).raised

\* C4 witness: the call failed at the third block, after two well-formed ones
C4_Witness == dpc = "error" /\ bi = 3 /\ Len(blocks) = 3

\* Every line of the text s is a line of the block, in the block's order and
\* with nothing between them left out
LinesVerbatim(s, b) ==
  \E from \in 1..(Len(splitlines(b)) + 1) :
    \E to \in 0..Len(splitlines(b)) :
      splitlines(s) = SubSeq(splitlines(b), from, to)

IsPreWithCodeLeaf(n, b) ==
  /\ n.cls = "ParentNode"
  /\ n.tag = <<"p", "r", "e">>
  /\ Len(n.children) = 1
  /\ n.children[1].cls = "LeafNode"
  /\ n.children[1].tag = <<"c", "o", "d", "e">>
  /\ n.children[1].children = <<>>
  /\ LinesVerbatim(n.children[1].value, b)

\* C7: the iteration for a block classified Code passes nothing to the inline
\* tokenizer, does not fail, and appends a pre parent holding one code leaf
\* whose text is lines of the block, unchanged.
C7_CodeNotTokenized ==
  [][(dpc = "loop" /\ bi <= Len(blocks) /\ block_to_block_type(blocks[bi]) = BlockType_CODE) =>
       /\ tokenized' = tokenized
       /\ dpc' = "loop"
       /\ Len(block_nodes') = Len(block_nodes) + 1
       /\ IsPreWithCodeLeaf(block_nodes'[Len(block_nodes')], blocks[bi])]_vars

\* C7 witness: a code leaf whose text holds an odd number of '_' was appended
C7_Witness ==
  \E k \in 1..Len(block_nodes) :
    /\ block_nodes[k].tag = <<"p", "r", "e">>
    /\ count(block_nodes[k].children[1].value, <<"_">>) % 2 = 1

(***************************************************************************)
(* block_to_block_type on blocks of numbered lines                          *)
(***************************************************************************)
MaxOlLines == 3

OlLines == { <<>>, <<"1", ".", " ", "a">>, <<"2", ".", " ", "a">>, <<"3", ".", " ", "a">>,
             <<"4", ".", " ", "a">>, <<"0", "1", ".", " ", "a">>, <<"0", "2", ".", " ">>,
             <<"1", "0", ".", " ", "a">>, <<"1", ".", "a">>, <<"2", ".", "\t", "a">>, <<"a">> }

\* Every block of 1..n of the lines, joined by newlines
RECURSIVE OlBlocks(_)
OlBlocks(n) ==
  IF n = 1 THEN OlLines
  ELSE OlBlocks(n - 1) \cup {b \o <<NL>> \o l : b \in OlBlocks(n - 1), l \in OlLines}

MaxMixedLines == 3

MixedLines == { Fence, Fence \o <<"a">>, <<"a">> \o Fence, <<"#", " ", "a">>, <<"#">>, <<"#", "a">>,
                <<"#", "#", "#", "#", "#", "#", " ", "a">>, <<"#", "#", "#", "#", "#", "#", "#", " ", "a">>,
                <<">", "a">>, <<">">>, <<"-", " ", "a">>, <<"-", "a">>,
                <<"1", ".", " ", "a">>, <<"2", ".", " ", "a">>, <<"a">> }

\* Every block of 1..n of the lines of any kind, joined by newlines
RECURSIVE MixedBlocks(_)
MixedBlocks(n) ==
  IF n = 1 THEN MixedLines
  ELSE MixedBlocks(n - 1) \cup {b \o <<NL>> \o l : b \in MixedBlocks(n - 1), l \in MixedLines}

InitBlock ==
  /\ cblock \in OlBlocks(MaxOlLines) \cup MixedBlocks(MaxMixedLines)
  /\ btype = "pending"
  /\ IdleInline /\ IdleDoc /\ IdleExtract /\ IdleNode

Classify ==
  /\ btype = "pending"
  /\ btype' = block_to_block_type(cblock)
  /\ UNCHANGED <<cblock, inlineVars, docVars, extractVars, nodeVars>>

NextBlock == Classify

SpecBlock == InitBlock /\ [][NextBlock]_vars

\* The line begins with an integer followed by '. '
NumberedLine(line) ==
  /\ LeadingRun(line, DigitChars) >= 1
  /\ LeadingRun(line, DigitChars) + 2 <= Len(line)
  /\ line[LeadingRun(line, DigitChars) + 1] = "."
  /\ line[LeadingRun(line, DigitChars) + 2] = " "

NumberOf(line) == int(SubSeq(line, 1, LeadingRun(line, DigitChars)))

AllNumbered(b) == \A k \in 1..Len(splitlines(b)) : NumberedLine(splitlines(b)[k])

CountsFromOne(b) == \A k \in 1..Len(splitlines(b)) : NumberOf(splitlines(b)[k]) = k

\* C5: a block of one or more lines, each beginning with an integer followed by '. ', is
\* classified OrderedList when the integer of line k is k for every line, and
\* Paragraph otherwise.
C5_OrderedIffCounting ==
  (btype # "pending" /\ splitlines(cblock) # <<>> /\ AllNumbered(cblock)) =>
    /\ CountsFromOne(cblock) => btype = BlockType_ORDERED_LIST
    /\ ~CountsFromOne(cblock) => btype = BlockType_PARAGRAPH

\* C5 witness: three numbered lines where only the third breaks the count
C5_Witness ==
  /\ btype = BlockType_PARAGRAPH
  /\ AllNumbered(cblock)
  /\ Len(splitlines(cblock)) = 3
  /\ NumberOf(splitlines(cblock)[1]) = 1
  /\ NumberOf(splitlines(cblock)[2]) = 2
  /\ NumberOf(splitlines(cblock)[3]) # 3

\* The conditions of the decision list, each on the block alone
FencedAtBothEnds(b) ==
  /\ Len(b) >= 3
  /\ SubSeq(b, 1, 3) = Fence
  /\ SubSeq(b, Len(b) - 2, Len(b)) = Fence

HashesThenSpace(b) ==
  \E n \in 1..6 :
    /\ Len(b) > n
    /\ \A i \in 1..n : b[i] = "#"
    /\ b[n + 1] \in Whitespace

EveryLineStarts(b, prefix) ==
  \A k \in 1..Len(splitlines(b)) :
    /\ Len(splitlines(b)[k]) >= Len(prefix)
    /\ SubSeq(splitlines(b)[k], 1, Len(prefix)) = prefix

EveryLineCounts(b) ==
  \A k \in 1..Len(splitlines(b)) :
    /\ LeadingRun(splitlines(b)[k], DigitChars) >= 1
    /\ LeadingRun(splitlines(b)[k], DigitChars) + 2 <= Len(splitlines(b)[k])
    /\ splitlines(b)[k][LeadingRun(splitlines(b)[k], DigitChars) + 1] = "."
    /\ splitlines(b)[k][LeadingRun(splitlines(b)[k], DigitChars) + 2] \in Whitespace
    /\ NumberOf(splitlines(b)[k]) = k

\* The first type of the ordered list whose condition the block meets
FirstMatch(b) ==
  IF FencedAtBothEnds(b) THEN BlockType_CODE
  ELSE IF HashesThenSpace(b) THEN BlockType_HEADING
  ELSE IF EveryLineStarts(b, <<">">>) THEN BlockType_QUOTE
  ELSE IF EveryLineStarts(b, <<"-", " ">>) THEN BlockType_UNORDERED_LIST
  ELSE IF EveryLineCounts(b) THEN BlockType_ORDERED_LIST
  ELSE BlockType_PARAGRAPH

\* C11: block_to_block_type gives a block of one or more lines the first type
\* of the list Code, Heading, Quote, UnorderedList, OrderedList whose condition
\* it meets, and Paragraph when it meets none.
C11_FirstMatchWins ==
  (btype # "pending" /\ splitlines(cblock) # <<>>) => btype = FirstMatch(cblock)

\* C11 witness: a Paragraph of three lines of which some, not all, start with '>'
C11_Witness ==
  /\ btype = BlockType_PARAGRAPH
  /\ Len(splitlines(cblock)) = 3
  /\ startswith(splitlines(cblock)[1], <<">">>)
  /\ startswith(splitlines(cblock)[3], <<">">>)
  /\ ~startswith(splitlines(cblock)[2], <<">">>)

(***************************************************************************)
(* extract_markdown_images and extract_markdown_links                       *)
(***************************************************************************)
MaxPartLen == 2

\* Labels hold no '[' or ']', urls no '(' or ')'
Labels == Concats({<<"a">>, <<"!">>, <<"(">>, <<")">>}, MaxPartLen)

Urls == Concats({<<"u">>, <<"!">>, <<"[">>, <<"]">>}, MaxPartLen)

Around == { <<>>, <<"x">>, <<"!">> }

ShortLabels == { <<>>, <<"a">> }

ShortUrls == { <<>>, <<"u">> }

ImageThenLink ==
  { pre \o ImageMarkup(il, iu) \o mid \o LinkMarkup(ll, lu) \o post :
      pre \in Around, il \in ShortLabels, iu \in ShortUrls, mid \in Around \ {<<"!">>},
      ll \in ShortLabels, lu \in ShortUrls, post \in Around }

LinkThenImage ==
  { pre \o LinkMarkup(ll, lu) \o mid \o ImageMarkup(il, iu) \o post :
      pre \in Around \ {<<"!">>}, il \in ShortLabels, iu \in ShortUrls, mid \in Around,
      ll \in ShortLabels, lu \in ShortUrls, post \in Around }

ExtractInputs ==
  {ImageMarkup(l, u) : l \in Labels, u \in Urls} \cup ImageThenLink \cup LinkThenImage

InitExtract ==
  /\ text \in ExtractInputs
  /\ nodes = <<>>
  /\ pc = "extract"
  /\ IdleExtract
  /\ IdleDoc /\ IdleBlock /\ IdleNode

ExtractImages ==
  /\ pc = "extract"
  /\ found_images = NotCalled
  /\ found_images' = extract_markdown_images(text)
  /\ UNCHANGED <<found_links, inlineVars, docVars, blockVars, nodeVars>>

ExtractLinks ==
  /\ pc = "extract"
  /\ found_links = NotCalled
  /\ found_links' = extract_markdown_links(text)
  /\ UNCHANGED <<found_images, inlineVars, docVars, blockVars, nodeVars>>

NextExtract == ExtractImages \/ ExtractLinks

SpecExtract == InitExtract /\ [][NextExtract]_vars

Match(l, u) == [label |-> l, url |-> u]

\* The text holds one image (il, iu) and one link (ll, lu), in either order,
\* with text around them that does not put a '!' right before the link
OneImageOneLink(il, iu, ll, lu) ==
  \/ \E pre \in Around, mid \in Around \ {<<"!">>}, post \in Around :
       text = pre \o ImageMarkup(il, iu) \o mid \o LinkMarkup(ll, lu) \o post
  \/ \E pre \in Around \ {<<"!">>}, mid \in Around, post \in Around :
       text = pre \o LinkMarkup(ll, lu) \o mid \o ImageMarkup(il, iu) \o post

\* C6: on exactly the string ![label](url), with no bracket in the label and no
\* parenthesis in the url, extract_markdown_links returns nothing and
\* extract_markdown_images returns the one pair (label, url); on a string with
\* one image and one link each extractor returns the pair of its own kind only.
C6_EachExtractorItsKind ==
  /\ \A l \in Labels, u \in Urls :
       text = ImageMarkup(l, u) =>
         /\ found_links \in {NotCalled, <<>>}
         /\ found_images \in {NotCalled, <<Match(l, u)>>}
  /\ \A il \in ShortLabels, iu \in ShortUrls, ll \in ShortLabels, lu \in ShortUrls :
       OneImageOneLink(il, iu, ll, lu) =>
         /\ found_images \in {NotCalled, <<Match(il, iu)>>}
         /\ found_links \in {NotCalled, <<Match(ll, lu)>>}

\* C6 witness: both extractors have run on a lone image whose label holds
\* parentheses and whose url holds brackets
C6_Witness ==
  /\ found_images # NotCalled
  /\ found_links = <<>>
  /\ \E l \in Labels, u \in Urls :
       /\ text = ImageMarkup(l, u)
       /\ contains(l, <<"(">>)
       /\ contains(u, <<"]">>)

(***************************************************************************)
(* Building and rendering nodes                                             *)
(***************************************************************************)
\* An object that is no member of TextType (test_invalid_type)
FakeTextType == "FakeTextType"

Texts == { <<>>, <<"a">>, <<"<", "b", ">">>, <<"\"">> }

UrlArgs == { None, <<>>, <<"u">>, <<"\"">> }

TextNodeArgs ==
  { TextNode(t, tt, u) : t \in Texts, tt \in TextType \cup {FakeTextType}, u \in UrlArgs }

TagArgs == { None, <<"p">> }

ValueArgs == { None, <<>>, <<"a">> }

PropsArgs == { NoneProps, <<>>, <<Prop(<<"i", "d">>, <<"x">>)>> }

ChildrenArgs ==
  { NoneChildren, <<>>,
    <<LeafNode(None, <<"a">>, NoneProps)>>,
    <<LeafNode(<<"b">>, <<"a">>, NoneProps), ParentNode(<<"p">>, <<>>, NoneProps)>>,
    <<ParentNode(None, <<LeafNode(None, <<"a">>, NoneProps)>>, NoneProps)>>,
    <<ParentNode(<<"p">>, NoneChildren, NoneProps)>> }

Calls ==
  { [NoCall EXCEPT !.fn = "text_node_to_html_node", !.text_node = tn] : tn \in TextNodeArgs }
  \cup { [NoCall EXCEPT !.fn = "LeafNode", !.tag = t, !.value = v, !.props = p] :
           t \in TagArgs, v \in ValueArgs, p \in PropsArgs }
  \cup { [NoCall EXCEPT !.fn = "ParentNode", !.tag = t, !.children = c, !.props = p] :
           t \in TagArgs, c \in ChildrenArgs, p \in PropsArgs }

InitNode ==
  /\ call \in Calls
  /\ hnode = NoneNode
  /\ html = None
  /\ npc = "call"
  /\ IdleInline /\ IdleDoc /\ IdleBlock /\ IdleExtract

\* The constructor or converter returned n, or raised
Built(n) ==
  /\ hnode' = n
  /\ npc' = IF n = ValueError THEN "raised" ELSE "built"
  /\ UNCHANGED <<call, html, inlineVars, docVars, blockVars, extractVars>>

CallTextNodeToHtmlNode ==
  /\ npc = "call"
  /\ call.fn = "text_node_to_html_node"
  /\ Built(text_node_to_html_node(call.text_node))

CallLeafNode ==
  /\ npc = "call"
  /\ call.fn = "LeafNode"
  /\ Built(LeafNode(call.tag, call.value, call.props))

CallParentNode ==
  /\ npc = "call"
  /\ call.fn = "ParentNode"
  /\ Built(ParentNode(call.tag, call.children, call.props))

\* to_html returned h, or raised
Rendered(h) ==
  /\ html' = h
  /\ npc' = IF h = RaisedValueError THEN "raised" ELSE "rendered"
  /\ UNCHANGED <<call, hnode, inlineVars, docVars, blockVars, extractVars>>

CallToHtml ==
  /\ npc = "built"
  /\ Rendered(to_html(hnode))

NextNode == CallTextNodeToHtmlNode \/ CallLeafNode \/ CallParentNode \/ CallToHtml

SpecNode == InitNode /\ [][NextNode]_vars

\* The rendering the claim gives for a TextNode of each of the six kinds
RenderingOf(tn) ==
  IF tn.text_type = TextType_TEXT THEN tn.text
  ELSE IF tn.text_type = TextType_BOLD THEN <<"<", "b", ">">> \o tn.text \o <<"<", "/", "b", ">">>
  ELSE IF tn.text_type = TextType_ITALIC THEN <<"<", "i", ">">> \o tn.text \o <<"<", "/", "i", ">">>
  ELSE IF tn.text_type = TextType_CODE
    THEN <<"<", "c", "o", "d", "e", ">">> \o tn.text \o <<"<", "/", "c", "o", "d", "e", ">">>
  ELSE IF tn.text_type = TextType_LINK
    THEN <<"<", "a", " ", "h", "r", "e", "f", "=", "\"">> \o Str(tn.url) \o <<"\"", ">">>
         \o tn.text \o <<"<", "/", "a", ">">>
  ELSE <<"<", "i", "m", "g", " ", "s", "r", "c", "=", "\"">> \o Str(tn.url)
       \o <<"\"", " ", "a", "l", "t", "=", "\"">> \o tn.text
       \o <<"\"", ">", "<", "/", "i", "m", "g", ">">>

\* C8: a TextNode of one of the six kinds is converted and rendered without
\* error, and the rendering is the one fixed for its kind (Image: an img element
\* with empty content, src before alt, with a closing tag); a kind outside the
\* six makes text_node_to_html_node raise ValueError.
C8_RenderingPerKind ==
  call.fn = "text_node_to_html_node" =>
    /\ call.text_node.text_type \in TextType => npc # "raised"
    /\ (call.text_node.text_type \in TextType /\ npc = "rendered") => html = RenderingOf(call.text_node)
    /\ (call.text_node.text_type \notin TextType /\ npc # "call") => (npc = "raised" /\ hnode = ValueError)

\* C8 witness: an Image node with a text and a url has been rendered
C8_Witness ==
  /\ npc = "rendered"
  /\ call.fn = "text_node_to_html_node"
  /\ call.text_node.text_type = TextType_IMAGE
  /\ call.text_node.text = <<"a">>
  /\ call.text_node.url = <<"u">>

\* C9: a ParentNode built without a tag, or with None for its children, never
\* gets as far as a rendering, and a LeafNode built without a value is never
\* constructed.
C9_InvalidNodeNeverRenders ==
  /\ (call.fn = "ParentNode" /\ (call.tag = None \/ call.children = NoneChildren)) => npc # "rendered"
  /\ (call.fn = "LeafNode" /\ call.value = None) => npc \notin {"built", "rendered"}

(***************************************************************************)
(* split_nodes_link called on its own                                       *)
(***************************************************************************)
MaxLinkFrags == 3

LinkFrags == { <<"a">>, <<"!">>, ImageMarkup(<<"a">>, <<"u">>), LinkMarkup(<<"a">>, <<"u">>),
               LinkMarkup(<<"b">>, <<"u">>) }

LinkPassInputs == Concats(LinkFrags, MaxLinkFrags)

\* The old nodes: a Plain node holding the text, alone or followed by a Code
\* node holding the same text
InitLink ==
  /\ text \in LinkPassInputs
  /\ nodes \in { <<TextNode(text, TextType_TEXT, None)>>,
                 <<TextNode(text, TextType_TEXT, None), TextNode(text, TextType_CODE, None)>> }
  /\ pc = "link_only"
  /\ IdleDoc /\ IdleBlock /\ IdleExtract /\ IdleNode

SplitLinksOnly ==
  /\ pc = "link_only"
  /\ nodes' = split_nodes_link(nodes)
  /\ pc' = "link_done"
  /\ UNCHANGED <<text, docVars, blockVars, extractVars, nodeVars>>

NextLink == SplitLinksOnly

SpecLink == InitLink /\ [][NextLink]_vars

\* The nodes that came from the Plain node: all but a Code node at the end
FromPlain(ns) ==
  IF ns # <<>> /\ ns[Len(ns)].text_type = TextType_CODE THEN SubSeq(ns, 1, Len(ns) - 1) ELSE ns

\* How many times image markup occurs in the Plain nodes of ns
RECURSIVE ImagesInPlain(_)
ImagesInPlain(ns) ==
  IF ns = <<>> THEN 0
  ELSE (IF IsPlain(ns[1]) THEN Len(extract_markdown_images(ns[1].text)) ELSE 0)
       + ImagesInPlain(Tail(ns))

\* Node j of ns is a Link whose markup stands in the text where the node
\* stands in ns, with no '!' right before it
LinkFromOwnMarkup(ns, j) ==
  /\ SubSeq(text, OffsetOf(ns, j) + 1, OffsetOf(ns, j) + Len(MarkupOf(ns[j]))) = MarkupOf(ns[j])
  /\ OffsetOf(ns, j) >= 1 => text[OffsetOf(ns, j)] # "!"

\* C12: after split_nodes_link every Link node stands where its [label](url)
\* stood in the Plain text, not right after a '!', and every image markup of
\* the text is still inside a Plain node.
C12_ImageNeverTakenAsLink ==
  pc = "link_done" =>
    /\ \A j \in 1..Len(FromPlain(nodes)) :
         FromPlain(nodes)[j].text_type = TextType_LINK => LinkFromOwnMarkup(FromPlain(nodes), j)
    /\ ImagesInPlain(FromPlain(nodes)) = Len(extract_markdown_images(text))

(***************************************************************************)
(* Properties of the branches of markdown_to_html_node (SpecDoc)            *)
(***************************************************************************)
\* The lines of the block without the first and the last, joined by newlines
BetweenFences(b) == join(<<NL>>, SubSeq(splitlines(b), 2, Len(splitlines(b)) - 1))

\* That text, ending with a newline when there is any
FencedContent(b) == IF BetweenFences(b) = <<>> THEN <<>> ELSE BetweenFences(b) \o <<NL>>

\* C13: the code leaf appended for a block classified Code holds the block
\* without its first and its last line, the other lines joined by newlines and
\* followed by one newline when there are any.
C13_CodeIsBlockWithoutFences ==
  \A k \in 1..Len(block_nodes) :
    block_to_block_type(blocks[k]) = BlockType_CODE =>
      block_nodes[k].children[1].value = FencedContent(blocks[k])

\* The line without one leading '>' and without the whitespace around the rest
WithoutMarker(line) == strip(SubSeq(line, 2, Len(line)))

\* C14: the text passed to the inline tokenizer for a block classified Quote is
\* the block's lines, each without its one leading '>' and the whitespace around
\* the rest, joined by newlines in line order.
C14_QuoteStripsOneMarker ==
  (tokenized # <<>> /\ block_to_block_type(blocks[1]) = BlockType_QUOTE) =>
    tokenized[1] = join(<<NL>>, [k \in 1..Len(splitlines(blocks[1])) |->
                                   WithoutMarker(splitlines(blocks[1])[k])])

\* The first line of the block after its leading '#' and the whitespace that
\* follows them on that line
AfterMarker(line) ==
  SubSeq(line,
         LeadingRun(line, {"#"}) + LeadingRun(SubSeq(line, LeadingRun(line, {"#"}) + 1, Len(line)), Whitespace) + 1,
         Len(line))

\* C15: the text passed to the inline tokenizer for a block classified Heading
\* is the rest of the block's first line after the '#' marker and the
\* whitespace that follows it; nothing of a later line is in it.
C15_HeadingIsFirstLine ==
  (tokenized # <<>> /\ block_to_block_type(blocks[1]) = BlockType_HEADING) =>
    tokenized[1] = AfterMarker(splitlines(blocks[1])[1])

BlankLine == <<NL, NL>>

\* The block is non-empty, has no whitespace at either end and no blank line
WellFormedBlock(b) ==
  /\ b # <<>>
  /\ b[1] \notin Whitespace
  /\ b[Len(b)] \notin Whitespace
  /\ ~contains(b, BlankLine)

\* C16: every block that is classified is non-empty, trimmed and without two
\* consecutive newlines; a document with a blank line between its first and
\* last character gives a root of at least two children, each the node of its
\* own block alone, and no code leaf holds a blank line.
C16_BlocksEndAtBlankLines ==
  /\ \A k \in 1..Len(blocks) : WellFormedBlock(blocks[k])
  /\ dpc = "done" =>
       /\ contains(strip(markdown), BlankLine) => Len(root.children) >= 2
       /\ \A k \in 1..Len(root.children) :
            /\ root.children[k] = AssembleBlock(blocks[k]).node
            /\ root.children[k].tag = <<"p", "r", "e">> =>
                 ~contains(root.children[k].children[1].value, BlankLine)

\* C16 witness: a fenced region with a blank line inside became two pre elements
C16_Witness ==
  /\ dpc = "done"
  /\ startswith(markdown, Fence)
  /\ endswith(markdown, Fence)
  /\ contains(markdown, BlankLine)
  /\ Len(root.children) = 2
  /\ root.children[1].tag = <<"p", "r", "e">>
  /\ root.children[2].tag = <<"p", "r", "e">>

=============================================================================
